---- MODULE Spec2Model ----
(***************************************************************************)
(* GCCXMLParser (cwrap/frontends/gccxml/gccxml_parser.py): the streaming   *)
(* pass that builds raw nodes keyed by id, and get_result(), which gathers *)
(* macros, replaces every id by the node registered under it, filters the  *)
(* interesting declarations and resolves the aliases.                      *)
(*                                                                         *)
(* Python strings are sequences of one-character strings, so that split,   *)
(* splitlines and replace are computed as the code computes them.  Node    *)
(* objects live in the sequence `nodes`; an object is its index there, so  *)
(* two references are identical exactly when they hold the same index.     *)
(* The module c_ast (node classes) is not part of the sources at hand: its *)
(* constructors and add_argument / add_value / fixup_argtypes are taken    *)
(* from the specification's data model.                                    *)
(***************************************************************************)
EXTENDS Integers, Sequences, FiniteSets, TLC

(***************************************************************************)
(* Bounds of the explored documents.                                       *)
(***************************************************************************)
MaxElems == 3   \* start events of one document
MaxLines == 3   \* lines in the text of a dump section

\* The state of the parser and of the caller of parse().
VARIABLES
    phase,      \* "streaming", then "done" (get_result returned) or "failed"
    stream,     \* the elements started so far, in order, each with its text once ended
    open,       \* positions in stream of the elements not yet ended, outermost first
    nodes,      \* the node objects, in order of construction
    all,        \* self.all
    context,    \* self.context (0 stands for None)
    cpp_data,   \* self.cpp_data
    cdata,      \* self.cdata: None, or the section whose list it is
    diag,       \* the element names printed by unhandled_element
    err,        \* the exception that left parse() or get_result()
    order,      \* the keys of self.all in the order get_result iterated them
    todo,       \* the items of self.all.items() the loop has yet to visit
    remove,     \* get_result's remove
    namespace,  \* get_result's namespace
    aliases,    \* get_aliases' aliases
    result,     \* the list get_result returned
    family      \* the family of documents the run reads from

vars ==
    <<family, phase, stream, open, nodes, all, context, cpp_data, cdata, diag, err,
      order, todo, remove, namespace, aliases, result>>

(***************************************************************************)
(* Strings.                                                                *)
(***************************************************************************)
Str1(c) == <<c>>

IsSpace(c) == c \in {" ", "\n", "\t"}

\* The sentinel for Python's None where a string may stand.
None == <<"None">>

RECURSIVE JoinWith(_, _)
JoinWith(parts, sep) ==
    IF parts = <<>> THEN <<>>
    ELSE IF Len(parts) = 1 THEN parts[1]
    ELSE parts[1] \o sep \o JoinWith(Tail(parts), sep)

\* ''.join(chunks)
RECURSIVE Concat(_)
Concat(chunks) ==
    IF chunks = <<>> THEN <<>> ELSE chunks[1] \o Concat(Tail(chunks))

\* Index of the first character of s at or after i satisfying the test, or
\* Len(s) + 1.
RECURSIVE FirstSpace(_, _)
FirstSpace(s, i) ==
    IF i > Len(s) THEN i
    ELSE IF IsSpace(s[i]) THEN i ELSE FirstSpace(s, i + 1)

RECURSIVE FirstNonSpace(_, _)
FirstNonSpace(s, i) ==
    IF i > Len(s) THEN i
    ELSE IF IsSpace(s[i]) THEN FirstNonSpace(s, i + 1) ELSE i

RECURSIVE FirstChar(_, _, _)
FirstChar(s, c, i) ==
    IF i > Len(s) THEN i
    ELSE IF s[i] = c THEN i ELSE FirstChar(s, c, i + 1)

\* str.split(): the whitespace-separated words of s.
RECURSIVE SplitWords(_)
SplitWords(s) ==
    LET b == FirstNonSpace(s, 1)
        e == FirstSpace(s, b)
    IN  IF b > Len(s) THEN <<>>
        ELSE <<SubSeq(s, b, e - 1)>> \o SplitWords(SubSeq(s, e, Len(s)))

\* str.split(None, 1): leading whitespace is skipped, the first word ends at
\* the first whitespace, and the rest, from its first non-blank character on,
\* is kept whole; no rest, no second part; no word, no part at all.
SplitFirstWord(s) ==
    LET b == FirstNonSpace(s, 1)
        e == FirstSpace(s, b)
        r == FirstNonSpace(s, e)
    IN  IF b > Len(s) THEN <<>>
        ELSE IF r > Len(s) THEN <<SubSeq(s, b, e - 1)>>
        ELSE <<SubSeq(s, b, e - 1), SubSeq(s, r, Len(s))>>

\* str.split(c, 1)
SplitChar1(s, c) ==
    LET i == FirstChar(s, c, 1)
    IN  IF i > Len(s) THEN <<s>>
        ELSE <<SubSeq(s, 1, i - 1), SubSeq(s, i + 1, Len(s))>>

\* str.split(c)
RECURSIVE SplitChar(_, _)
SplitChar(s, c) ==
    LET i == FirstChar(s, c, 1)
    IN  IF i > Len(s) THEN <<s>>
        ELSE <<SubSeq(s, 1, i - 1)>> \o SplitChar(SubSeq(s, i + 1, Len(s)), c)

\* str.splitlines(): the pieces between line breaks; a final line break ends
\* the last line and opens no empty one.
RECURSIVE SplitLines(_)
SplitLines(s) ==
    LET i == FirstChar(s, "\n", 1)
    IN  IF s = <<>> THEN <<>>
        ELSE IF i > Len(s) THEN <<s>>
        ELSE <<SubSeq(s, 1, i - 1)>> \o SplitLines(SubSeq(s, i + 1, Len(s)))

Digits == <<"0", "1", "2", "3", "4", "5", "6", "7", "8", "9">>

DigitVal(c) == (CHOOSE k \in 1..10 : Digits[k] = c) - 1

IsDigits(s) == s # <<>> /\ \A i \in 1..Len(s) : \E k \in 1..10 : Digits[k] = s[i]

\* int(s) of a string of decimal digits
RECURSIVE ParseInt(_)
ParseInt(s) ==
    IF s = <<>> THEN 0
    ELSE 10 * ParseInt(SubSeq(s, 1, Len(s) - 1)) + DigitVal(s[Len(s)])

\* s.rstrip(chars)
RECURSIVE RStrip(_, _)
RStrip(s, chars) ==
    IF s # <<>> /\ s[Len(s)] \in chars THEN RStrip(SubSeq(s, 1, Len(s) - 1), chars)
    ELSE s

\* int(s) accepts an optional sign before the decimal digits
IsInt(s) == IF s # <<>> /\ s[1] = "-" THEN IsDigits(Tail(s)) ELSE IsDigits(s)
int(s) == IF s[1] = "-" THEN 0 - ParseInt(Tail(s)) ELSE ParseInt(s)

\* s.startswith(p)
StartsWith(s, p) == Len(s) >= Len(p) /\ SubSeq(s, 1, Len(p)) = p

\* s.replace(old, by), old not empty
RECURSIVE Replace(_, _, _)
Replace(s, old, by) ==
    IF s = <<>> THEN <<>>
    ELSE IF StartsWith(s, old)
    THEN by \o Replace(SubSeq(s, Len(old) + 1, Len(s)), old, by)
    ELSE <<s[1]>> \o Replace(Tail(s), old, by)

(***************************************************************************)
(* References, nodes and the registry.                                     *)
(***************************************************************************)
\* A reference field holds nothing, the raw id read from an attribute, or a
\* node object.
NoRef == [tag |-> "none", id |-> <<>>, h |-> 0]
\* The id looked up at once when it is registered already.
Raw_Eager(i) ==
    IF [s |-> i, o |-> 0] \in DOMAIN all
    THEN [tag |-> "node", id |-> <<>>, h |-> all[[s |-> i, o |-> 0]]]
    ELSE [tag |-> "id", id |-> i, h |-> 0]

Raw(i) == [tag |-> "id", id |-> i, h |-> 0]
Obj(h) == [tag |-> "node", id |-> <<>>, h |-> h]

\* A location is absent, the attribute's text, or the resolved pair
\* (file name, line).
NoLoc == [tag |-> "none", text |-> <<>>, file |-> <<>>, line |-> 0]
RawLoc(t) == [tag |-> "raw", text |-> t, file |-> <<>>, line |-> 0]
Located(f, n) == [tag |-> "pair", text |-> <<>>, file |-> f, line |-> n]

\* A key of the dictionary `all`: a string (an element's id, a macro's or an
\* alias's name) or id(result), the identity of the node itself.
StrKey(s) == [s |-> s, o |-> 0]
ObjKey(h) == [s |-> <<>>, o |-> h]

\* d[k] = v
Put(d, k, v) == [x \in DOMAIN d \cup {k} |-> IF x = k THEN v ELSE d[x]]

EmptyDict == [x \in {} |-> 0]

\* attrs.get(a, None)
Get(attrs, a) == IF a \in DOMAIN attrs THEN attrs[a] ELSE None

\* The fields of a node object; a class sets the fields its constructor names
\* and leaves the others as they are here.  `ev` is the position in the stream
\* of the start event that built the node (0: built from a dump section).
Node(kind) ==
    [kind |-> kind, name |-> None, typ |-> NoRef, context |-> NoRef,
     returns |-> NoRef, members |-> <<>>, bases |-> <<>>, arguments |-> <<>>,
     values |-> <<>>, location |-> NoLoc, value |-> <<>>, args |-> <<>>,
     body |-> <<>>, min |-> 0, max |-> 0, ev |-> 0]

\* c_ast.Argument(typ, name) and c_ast.EnumValue(name, value): the children
\* appended to their parent and never registered.
Argument(typ, name, ev) == [typ |-> Raw(typ), name |-> name, ev |-> ev]
EnumValue(name, value, ev) == [name |-> name, value |-> value, ev |-> ev]

\* Classes whose objects have a name attribute.
HasName ==
    {"Ignored", "Namespace", "File", "Variable", "Typedef", "FundamentalType",
     "Function", "OperatorFunction", "Enumeration", "Struct", "Union", "Field",
     "Macro", "Alias"}

\* Classes with add_argument and fixup_argtypes, and the class with add_value.
HasArguments == {"Function", "FunctionType", "OperatorFunction", "Ignored"}
HasValues == {"Enumeration"}

\* parent.add_argument(arg), parent.add_value(val)
add_argument(node, arg) == [node EXCEPT !.arguments = Append(@, arg)]
add_value(node, val) == [node EXCEPT !.values = Append(@, val)]

(***************************************************************************)
(* Names.                                                                  *)
(***************************************************************************)
RECURSIVE ReplaceChar(_, _, _)
ReplaceChar(s, c, by) ==
    IF s = <<>> THEN <<>>
    ELSE (IF s[1] = c THEN by ELSE <<s[1]>>) \o ReplaceChar(Tail(s), c, by)

MAKE_NAME(name) ==
    LET n == ReplaceChar(ReplaceChar(name, "$", <<"D", "O", "L", "L", "A", "R">>),
                         ".", <<"D", "O", "T">>)
    IN  IF Len(n) >= 2 /\ n[1] = "_" /\ n[2] = "_" THEN <<"_", "X">> \o n
        ELSE IF \E k \in 1..10 : Digits[k] = n[1] THEN <<"_">> \o n
        ELSE n

Letters ==
    {"a", "b", "c", "f", "x", "y", "h", "A", "B", "C", "F", "G", "O", "R", "_"}

\* WORDPAT = ^[a-zA-Z_][a-zA-Z0-9_]*$ over the characters the documents use
WORDPAT(s) ==
    /\ s # <<>>
    /\ s[1] \in Letters
    /\ \A i \in 1..Len(s) : s[i] \in Letters \/ \E k \in 1..10 : Digits[k] = s[i]

CHECK_NAME(name) == IF WORDPAT(name) THEN name ELSE None

(***************************************************************************)
(* Exceptions, and the tables of handlers.                                 *)
(***************************************************************************)
NoErr == [type |-> "none", key |-> StrKey(<<>>), at |-> "none"]
Raised(type, key, at) == [type |-> type, key |-> key, at |-> at]

\* The table without the methods.
has_subelements_NoMethod ==
    {"Enumeration", "Function", "FunctionType", "OperatorFunction",
     "Constructor", "Destructor", "OperatorMethod"}

\* xml element types that have xml subelements
has_subelements ==
    {"Enumeration", "Function", "FunctionType", "OperatorFunction", "Method",
     "Constructor", "Destructor", "OperatorMethod"}

\* The element names for which the class has a visit_ method.
Visitors ==
    {"Ignored", "Method", "Constructor", "Destructor", "OperatorMethod", "Base",
     "Converter", "MethodType", "Ellipsis", "OffsetType", "GCC_XML",
     "Characters", "CPP_DUMP", "Namespace", "File", "Variable", "Typedef",
     "FundamentalType", "PointerType", "ReferenceType", "ArrayType",
     "CvQualifiedType", "Function", "FunctionType", "OperatorFunction",
     "Argument", "Enumeration", "EnumValue", "Struct", "Class", "Union",
     "Field"}

\* The visit_ methods bound to visit_Ignored.
IgnoredElements ==
    {"Ignored", "Method", "Constructor", "Destructor", "OperatorMethod", "Base",
     "Converter", "MethodType", "OffsetType"}

(***************************************************************************)
(* Node element handlers: each reads its own attributes and leaves every   *)
(* reference as the id it read.                                            *)
(***************************************************************************)
RECURSIVE RawList(_)
RawList(ids) ==
    IF ids = <<>> THEN <<>> ELSE <<Raw(ids[1])>> \o RawList(Tail(ids))

UNDEFINED == <<"U", "N", "D", "E", "F", "I", "N", "E", "D">>

visit_Ignored(attrs) ==
    LET name == IF "name" \in DOMAIN attrs THEN attrs.name
                ELSE IF "mangled" \in DOMAIN attrs THEN MAKE_NAME(attrs.mangled)
                ELSE UNDEFINED
    IN  [Node("Ignored") EXCEPT !.name = name]

visit_Namespace(attrs) ==
    [Node("Namespace") EXCEPT !.name = attrs.name,
                              !.members = RawList(SplitWords(attrs.members))]

visit_File(attrs) == [Node("File") EXCEPT !.name = attrs.name]

visit_Variable(attrs) ==
    [Node("Variable") EXCEPT !.name = attrs.name, !.typ = Raw(attrs.type),
                             !.context = Raw(attrs.context)]

visit_Typedef(attrs) ==
    [Node("Typedef") EXCEPT !.name = attrs.name, !.typ = Raw(attrs.type),
                            !.context = Raw(attrs.context)]

visit_FundamentalType(attrs) ==
    [Node("FundamentalType") EXCEPT !.name = attrs.name]

visit_PointerType(attrs) == [Node("PointerType") EXCEPT !.typ = Raw(attrs.type)]

\* min and max lose their trailing 'l' and 'u' and go through int(); the
\* all-ones maximum and the empty one stand for -1
SENTINEL == [i \in 1..16 |-> "f"]

\* The empty maximum not provided for.
ArrayMax_NoEmpty(attrs) ==
    IF attrs.max = SENTINEL THEN <<"-", "1">> ELSE attrs.max

ArrayMax(attrs) ==
    IF attrs.max = SENTINEL \/ attrs.max = <<>> THEN <<"-", "1">> ELSE attrs.max

ArrayBoundsParse(attrs) ==
    /\ IsInt(RStrip(attrs.min, {"l", "u"}))
    /\ IsInt(RStrip(ArrayMax(attrs), {"l", "u"}))

visit_ArrayType(attrs) ==
    [Node("ArrayType") EXCEPT !.typ = Raw(attrs.type),
                              !.min = int(RStrip(attrs.min, {"l", "u"})),
                              !.max = int(RStrip(ArrayMax(attrs), {"l", "u"}))]

visit_CvQualifiedType(attrs) ==
    [Node("CvQualifiedType") EXCEPT !.typ = Raw(attrs.type)]

visit_Function(attrs) ==
    [Node("Function") EXCEPT !.name = attrs.name, !.returns = Raw(attrs.returns),
                             !.context = Raw(attrs.context)]

visit_FunctionType(attrs) ==
    [Node("FunctionType") EXCEPT !.returns = Raw(attrs.returns)]

visit_OperatorFunction(attrs) ==
    [Node("OperatorFunction") EXCEPT !.name = attrs.name,
                                     !.returns = Raw(attrs.returns),
                                     !.context = Raw(attrs.context)]

visit_Enumeration(attrs) ==
    [Node("Enumeration") EXCEPT !.name = CHECK_NAME(attrs.name)]

\* bases and members default to '' and are split at whitespace
StructName(attrs) ==
    IF "name" \in DOMAIN attrs THEN attrs.name ELSE MAKE_NAME(attrs.mangled)

StructList(attrs, a) ==
    IF a \in DOMAIN attrs THEN SplitWords(attrs[a]) ELSE <<>>

visit_Struct(attrs) ==
    [Node("Struct") EXCEPT !.name = StructName(attrs),
                           !.members = RawList(StructList(attrs, "members")),
                           !.bases = RawList(StructList(attrs, "bases")),
                           !.context = Raw(attrs.context)]

\* bases = [b.replace('protected:', '') for b in bases]; the node is a Struct
PROTECTED == <<"p", "r", "o", "t", "e", "c", "t", "e", "d", ":">>

RECURSIVE StripProtected(_)
StripProtected(bases) ==
    IF bases = <<>> THEN <<>>
    ELSE <<Replace(bases[1], PROTECTED, <<>>)>> \o StripProtected(Tail(bases))

visit_Class(attrs) ==
    [Node("Struct") EXCEPT !.name = StructName(attrs),
                           !.members = RawList(StructList(attrs, "members")),
                           !.bases = RawList(StripProtected(StructList(attrs, "bases"))),
                           !.context = Raw(attrs.context)]

visit_Union(attrs) ==
    [Node("Union") EXCEPT !.name = StructName(attrs),
                          !.members = RawList(StructList(attrs, "members")),
                          !.bases = RawList(StructList(attrs, "bases")),
                          !.context = Raw(attrs.context)]

visit_Field(attrs) ==
    [Node("Field") EXCEPT !.name = attrs.name, !.typ = Raw(attrs.type),
                          !.context = Raw(attrs.context)]

\* The handlers that return a node, by element name.
Builders ==
    IgnoredElements \cup
    {"Namespace", "File", "Variable", "Typedef", "FundamentalType",
     "PointerType", "ReferenceType", "ArrayType", "CvQualifiedType", "Function",
     "FunctionType", "OperatorFunction", "Enumeration", "Struct", "Class",
     "Union", "Field"}

Build(name, attrs) ==
    CASE name \in IgnoredElements -> visit_Ignored(attrs)
      [] name = "Namespace" -> visit_Namespace(attrs)
      [] name = "File" -> visit_File(attrs)
      [] name = "Variable" -> visit_Variable(attrs)
      [] name = "Typedef" -> visit_Typedef(attrs)
      [] name = "FundamentalType" -> visit_FundamentalType(attrs)
      [] name \in {"PointerType", "ReferenceType"} -> visit_PointerType(attrs)
      [] name = "ArrayType" -> visit_ArrayType(attrs)
      [] name = "CvQualifiedType" -> visit_CvQualifiedType(attrs)
      [] name = "Function" -> visit_Function(attrs)
      [] name = "FunctionType" -> visit_FunctionType(attrs)
      [] name = "OperatorFunction" -> visit_OperatorFunction(attrs)
      [] name = "Enumeration" -> visit_Enumeration(attrs)
      [] name = "Struct" -> visit_Struct(attrs)
      [] name = "Class" -> visit_Class(attrs)
      [] name = "Union" -> visit_Union(attrs)
      [] name = "Field" -> visit_Field(attrs)

(***************************************************************************)
(* Streaming: parse() hands each start and end event of the document to    *)
(* start_element and end_element.                                          *)
(***************************************************************************)
Last(q) == q[Len(q)]
Front(q) == SubSeq(q, 1, Len(q) - 1)

\* The innermost open element that has subelements (0: none), read off the
\* nesting of the document.
Enclosing ==
    LET S == {i \in 1..Len(open) : stream[open[i]].tag \in has_subelements}
    IN  IF S = {} THEN 0 ELSE open[CHOOSE m \in S : \A x \in S : x <= m]

\* An exception leaves parse(): nothing more is read.
Abort(type, at) ==
    /\ phase' = "failed"
    /\ err' = Raised(type, StrKey(<<>>), at)
    /\ UNCHANGED <<nodes, all, context, cpp_data, cdata, diag>>

\* The argument given to the outermost open element.
visit_Argument_Outermost(attrs, pos) ==
    IF context = <<>> THEN Abort("IndexError", "visit_Argument")
    ELSE IF context[1] = 0 THEN
        UNCHANGED <<phase, err, nodes, all, context, cpp_data, cdata, diag>>
    ELSE IF nodes[context[1]].kind \notin HasArguments THEN
        Abort("AttributeError", "visit_Argument")
    ELSE
        /\ nodes' = [nodes EXCEPT ![context[1]] =
                        add_argument(@, Argument(attrs.type, Get(attrs, "name"), pos))]
        /\ UNCHANGED <<phase, err, all, context, cpp_data, cdata, diag>>

\* visit_Argument and visit_EnumValue append the child to the node on top of
\* the context stack and return None.
visit_Argument(attrs, pos) ==
    IF context = <<>> THEN Abort("IndexError", "visit_Argument")
    ELSE IF Last(context) = 0 THEN
        UNCHANGED <<phase, err, nodes, all, context, cpp_data, cdata, diag>>
    ELSE IF nodes[Last(context)].kind \notin HasArguments THEN
        Abort("AttributeError", "visit_Argument")
    ELSE
        /\ nodes' = [nodes EXCEPT ![Last(context)] =
                        add_argument(@, Argument(attrs.type, Get(attrs, "name"), pos))]
        /\ UNCHANGED <<phase, err, all, context, cpp_data, cdata, diag>>

visit_EnumValue(attrs, pos) ==
    IF context = <<>> THEN Abort("IndexError", "visit_EnumValue")
    ELSE IF Last(context) = 0 THEN
        UNCHANGED <<phase, err, nodes, all, context, cpp_data, cdata, diag>>
    ELSE IF nodes[Last(context)].kind \notin HasValues THEN
        Abort("AttributeError", "visit_EnumValue")
    ELSE
        /\ nodes' = [nodes EXCEPT ![Last(context)] =
                        add_value(@, EnumValue(attrs.name, attrs.init, pos))]
        /\ UNCHANGED <<phase, err, all, context, cpp_data, cdata, diag>>

\* cpp_data[name] = cdata = []
visit_CPP_DUMP(attrs) ==
    /\ cpp_data' = Put(cpp_data, attrs.name, <<>>)
    /\ cdata' = attrs.name
    /\ UNCHANGED <<phase, err, nodes, all, context, diag>>

\* print 'Unhandled element `%s`.' % name
unhandled_element(name) ==
    /\ diag' = Append(diag, name)
    /\ UNCHANGED <<phase, err, nodes, all, context, cpp_data, cdata>>

\* A handler returned a node: set its location, register it under its id or,
\* without one, under id(result); push it if the element has subelements.
Record(name, attrs, pos) ==
    LET h == Len(nodes) + 1
        built == [Build(name, attrs) EXCEPT !.ev = pos]
        node == IF "location" \in DOMAIN attrs
                THEN [built EXCEPT !.location = RawLoc(attrs.location)]
                ELSE built
        key == IF "id" \in DOMAIN attrs THEN StrKey(attrs.id) ELSE ObjKey(h)
    IN  /\ nodes' = Append(nodes, node)
        /\ all' = Put(all, key, h)
        /\ context' = IF name \in has_subelements THEN Append(context, h)
                      ELSE context
        /\ UNCHANGED <<phase, err, cpp_data, cdata, diag>>

start_element(name, attrs) ==
    LET pos == Len(stream) + 1
    IN  /\ stream' = Append(stream, [tag |-> name, attrs |-> attrs, encl |-> Enclosing,
                                     text |-> <<>>])
        /\ open' = Append(open, pos)
        /\ CASE name \notin Visitors -> unhandled_element(name)
             [] name = "Argument" -> visit_Argument(attrs, pos)
             [] name = "EnumValue" -> visit_EnumValue(attrs, pos)
             [] name = "CPP_DUMP" -> visit_CPP_DUMP(attrs)
             [] name = "Ellipsis" ->
                    UNCHANGED <<phase, err, nodes, all, context, cpp_data, cdata, diag>>
             [] name = "ArrayType" /\ ~ArrayBoundsParse(attrs) ->
                    Abort("ValueError", "visit_ArrayType")
             [] name \in Builders /\ (name = "ArrayType" => ArrayBoundsParse(attrs)) ->
                    Record(name, attrs, pos)

\* The end event: the element's text goes to visit_Characters, which keeps it
\* only while cdata is a list; then end_element pops and resets cdata.
end_element(name, text) ==
    /\ open' = Front(open)
    /\ stream' = [stream EXCEPT ![Last(open)].text = text]
    /\ cpp_data' = IF text # <<>> /\ cdata # None
                   THEN [cpp_data EXCEPT ![cdata] = Append(@, text)]
                   ELSE cpp_data
    /\ context' = IF name \in has_subelements THEN Front(context) ELSE context
    /\ cdata' = None
    /\ UNCHANGED <<phase, nodes, all, diag, err>>

(***************************************************************************)
(* The documents explored.  The k-th element that carries an id carries    *)
(* "_k" (ids are unique within one document); references name "_1".."_3",  *)
(* so that an element may be named before it is read (a forward reference) *)
(* or never read at all (a dangling one).                                  *)
(***************************************************************************)
IdOf(k) == <<"_", Digits[k + 1]>>

RefIds == {IdOf(1), IdOf(2), IdOf(3)}

\* The elements gccxml writes with an id attribute.
IdElements ==
    {"Namespace", "File", "Variable", "Typedef", "FundamentalType",
     "PointerType", "ReferenceType", "ArrayType", "CvQualifiedType", "Function",
     "FunctionType", "OperatorFunction", "Enumeration", "Struct", "Class",
     "Union", "Field", "Method", "Constructor", "Destructor", "OperatorMethod"}

NextId == IdOf(1 + Cardinality({i \in 1..Len(stream) : "id" \in DOMAIN stream[i].attrs}))

WithId(e) ==
    IF e.tag \in IdElements
    THEN [x \in DOMAIN e.attrs \cup {"id"} |-> IF x = "id" THEN NextId ELSE e.attrs[x]]
    ELSE e.attrs

(***************************************************************************)
(* Fixup handlers.  Each takes the node and self.all and gives the node as *)
(* the handler leaves it, with the KeyError of the first lookup that       *)
(* misses.                                                                 *)
(***************************************************************************)
Fixed(node) == [node |-> node, err |-> NoErr]
Missed(node, ref, at) == [node |-> node, err |-> Raised("KeyError", StrKey(ref.id), at)]

\* self.all[ref] succeeds for an id that is a key of self.all
Hit(al, ref) == ref.tag = "id" /\ StrKey(ref.id) \in DOMAIN al
Lookup(al, ref) == Obj(al[StrKey(ref.id)])

\* Positions of the entries of a list whose lookup misses.
Misses(al, refs) == {i \in 1..Len(refs) : ~Hit(al, refs[i])}
FirstOf(S) == CHOOSE m \in S : \A x \in S : m <= x

\* The list built back to front.
RECURSIVE LookupList_Reversed(_, _)
LookupList_Reversed(al, refs) ==
    IF refs = <<>> THEN <<>>
    ELSE LookupList_Reversed(al, Tail(refs)) \o <<Lookup(al, refs[1])>>

RECURSIVE LookupList(_, _)
LookupList(al, refs) ==
    IF refs = <<>> THEN <<>>
    ELSE <<Lookup(al, refs[1])>> \o LookupList(al, Tail(refs))

\* for i, mbr in enumerate(ns.members): ns.members[i] = self.all[mbr]
_fixup_Namespace(ns, al) ==
    LET bad == Misses(al, ns.members)
        upto == IF bad = {} THEN Len(ns.members) ELSE FirstOf(bad) - 1
        done == [ns EXCEPT !.members =
                    LookupList(al, SubSeq(ns.members, 1, upto))
                    \o SubSeq(ns.members, upto + 1, Len(ns.members))]
    IN  IF bad = {} THEN Fixed(done)
        ELSE Missed(done, ns.members[FirstOf(bad)], "_fixup_Namespace")

_fixup_File(f, al) == Fixed(f)

\* t.typ = self.all[t.typ]; t.context = self.all[t.context]
TypAndContext(t, al, at) ==
    IF ~Hit(al, t.typ) THEN Missed(t, t.typ, at)
    ELSE LET t1 == [t EXCEPT !.typ = Lookup(al, t.typ)]
         IN  IF ~Hit(al, t.context) THEN Missed(t1, t.context, at)
             ELSE Fixed([t1 EXCEPT !.context = Lookup(al, t.context)])

\* The context left as read.
_fixup_Variable_TypOnly(t, al) ==
    IF ~Hit(al, t.typ) THEN Missed(t, t.typ, "_fixup_Variable")
    ELSE Fixed([t EXCEPT !.typ = Lookup(al, t.typ)])

_fixup_Variable(t, al) == TypAndContext(t, al, "_fixup_Variable")

_fixup_Typedef(t, al) == TypAndContext(t, al, "_fixup_Typedef")

_fixup_FundamentalType(t, al) == Fixed(t)

\* The pointee left as read.
_fixup_PointerType_Pass(p, al) == Fixed(p)

_fixup_PointerType(p, al) ==
    IF ~Hit(al, p.typ) THEN Missed(p, p.typ, "_fixup_PointerType")
    ELSE Fixed([p EXCEPT !.typ = Lookup(al, p.typ)])

_fixup_ArrayType(a, al) ==
    IF ~Hit(al, a.typ) THEN Missed(a, a.typ, "_fixup_ArrayType")
    ELSE Fixed([a EXCEPT !.typ = Lookup(al, a.typ)])

_fixup_CvQualifiedType(c, al) ==
    IF ~Hit(al, c.typ) THEN Missed(c, c.typ, "_fixup_CvQualifiedType")
    ELSE Fixed([c EXCEPT !.typ = Lookup(al, c.typ)])

\* func.fixup_argtypes(self.all): each argument's type in turn, in place
RECURSIVE ArgTypes(_, _)
ArgTypes(al, args) ==
    IF args = <<>> THEN <<>>
    ELSE <<[args[1] EXCEPT !.typ = Lookup(al, @)]>> \o ArgTypes(al, Tail(args))

fixup_argtypes(func, al, at) ==
    LET bad == {i \in 1..Len(func.arguments) : ~Hit(al, func.arguments[i].typ)}
        upto == IF bad = {} THEN Len(func.arguments) ELSE FirstOf(bad) - 1
        done == [func EXCEPT !.arguments =
                    ArgTypes(al, SubSeq(func.arguments, 1, upto))
                    \o SubSeq(func.arguments, upto + 1, Len(func.arguments))]
    IN  IF bad = {} THEN Fixed(done)
        ELSE Missed(done, func.arguments[FirstOf(bad)].typ, at)

_fixup_Function(func, al) ==
    IF ~Hit(al, func.returns) THEN Missed(func, func.returns, "_fixup_Function")
    ELSE LET f1 == [func EXCEPT !.returns = Lookup(al, func.returns)]
         IN  IF ~Hit(al, func.context) THEN Missed(f1, func.context, "_fixup_Function")
             ELSE fixup_argtypes([f1 EXCEPT !.context = Lookup(al, func.context)],
                                 al, "_fixup_Function")

_fixup_FunctionType(func, al) ==
    IF ~Hit(al, func.returns) THEN Missed(func, func.returns, "_fixup_FunctionType")
    ELSE fixup_argtypes([func EXCEPT !.returns = Lookup(al, func.returns)],
                        al, "_fixup_FunctionType")

_fixup_OperatorFunction(func, al) ==
    IF ~Hit(al, func.returns) THEN Missed(func, func.returns, "_fixup_OperatorFunction")
    ELSE LET f1 == [func EXCEPT !.returns = Lookup(al, func.returns)]
         IN  IF ~Hit(al, func.context)
             THEN Missed(f1, func.context, "_fixup_OperatorFunction")
             ELSE fixup_argtypes([f1 EXCEPT !.context = Lookup(al, func.context)],
                                 al, "_fixup_OperatorFunction")

_fixup_Enumeration(e, al) == Fixed(e)

\* s.members = [self.all[m] for m in s.members], then the bases likewise,
\* then the context: a list is replaced whole or not at all.
MembersBasesContext(s, al, at) ==
    IF Misses(al, s.members) # {}
    THEN Missed(s, s.members[FirstOf(Misses(al, s.members))], at)
    ELSE LET s1 == [s EXCEPT !.members = LookupList(al, s.members)]
         IN  IF Misses(al, s.bases) # {}
             THEN Missed(s1, s.bases[FirstOf(Misses(al, s.bases))], at)
             ELSE LET s2 == [s1 EXCEPT !.bases = LookupList(al, s.bases)]
                  IN  IF ~Hit(al, s.context) THEN Missed(s2, s.context, at)
                      ELSE Fixed([s2 EXCEPT !.context = Lookup(al, s.context)])

_fixup_Struct(s, al) == MembersBasesContext(s, al, "_fixup_Struct")

_fixup_Union(u, al) == MembersBasesContext(u, al, "_fixup_Union")

_fixup_Field(f, al) == TypAndContext(f, al, "_fixup_Field")

_fixup_Macro(m, al) == Fixed(m)

_fixup_Ignored(const, al) == Fixed(const)

\* The classes for which the parser has a _fixup_ method.
HasFixup ==
    {"Namespace", "File", "Variable", "Typedef", "FundamentalType",
     "PointerType", "ReferenceType", "ArrayType", "CvQualifiedType", "Function",
     "FunctionType", "OperatorFunction", "Enumeration", "EnumValue", "Struct",
     "Union", "Field", "Macro", "Ignored", "Method", "Constructor",
     "Destructor", "OperatorMethod"}

\* getattr(self, '_fixup_' + node.__class__.__name__)(node)
fixup_method(node, al) ==
    CASE node.kind = "Namespace" -> _fixup_Namespace(node, al)
      [] node.kind = "File" -> _fixup_File(node, al)
      [] node.kind = "Variable" -> _fixup_Variable(node, al)
      [] node.kind = "Typedef" -> _fixup_Typedef(node, al)
      [] node.kind = "FundamentalType" -> _fixup_FundamentalType(node, al)
      [] node.kind = "PointerType" -> _fixup_PointerType(node, al)
      [] node.kind = "ArrayType" -> _fixup_ArrayType(node, al)
      [] node.kind = "CvQualifiedType" -> _fixup_CvQualifiedType(node, al)
      [] node.kind = "Function" -> _fixup_Function(node, al)
      [] node.kind = "FunctionType" -> _fixup_FunctionType(node, al)
      [] node.kind = "OperatorFunction" -> _fixup_OperatorFunction(node, al)
      [] node.kind = "Enumeration" -> _fixup_Enumeration(node, al)
      [] node.kind = "Struct" -> _fixup_Struct(node, al)
      [] node.kind = "Union" -> _fixup_Union(node, al)
      [] node.kind = "Field" -> _fixup_Field(node, al)
      [] node.kind = "Macro" -> _fixup_Macro(node, al)
      [] node.kind = "Ignored" -> _fixup_Ignored(node, al)

\* fil, line = location.split(':')
\* node.location = (self.all[fil].name, int(line))
FixLocation(node, ns, al) ==
    LET parts == SplitChar(node.location.text, ":")
    IN  IF node.location.tag # "raw" THEN Fixed(node)
        ELSE IF Len(parts) # 2
        THEN [node |-> node, err |-> Raised("ValueError", StrKey(node.location.text), "location")]
        ELSE IF StrKey(parts[1]) \notin DOMAIN al
        THEN [node |-> node, err |-> Raised("KeyError", StrKey(parts[1]), "location")]
        ELSE IF ns[al[StrKey(parts[1])]].kind \notin HasName
        THEN [node |-> node, err |-> Raised("AttributeError", StrKey(parts[1]), "location")]
        ELSE IF ~IsDigits(parts[2])
        THEN [node |-> node, err |-> Raised("ValueError", StrKey(parts[2]), "location")]
        ELSE Fixed([node EXCEPT !.location =
                        Located(ns[al[StrKey(parts[1])]].name, ParseInt(parts[2]))])

(***************************************************************************)
(* Post parsing helpers.                                                   *)
(***************************************************************************)
FUNCTIONS == <<"f", "u", "n", "c", "t", "i", "o", "n", "s">>
ALIASES == <<"a", "l", "i", "a", "s", "e", "s">>

\* c_ast.Macro(name, args, body), c_ast.Alias(name, value)
Macro(name, args, body) ==
    [Node("Macro") EXCEPT !.name = name, !.args = args, !.body = body]
Alias(name, value) == [Node("Alias") EXCEPT !.name = name, !.value = value]

\* The loop of get_macros over the lines left: name, body = m.split(None, 1);
\* name, args = name.split('(', 1); self.all[name] = Macro(name, '(' + args, body).
\* Unpacking anything but two parts raises ValueError.
\* The parameter text without its parenthesis.
RECURSIVE MacroLoop_NoParen(_, _, _)
MacroLoop_NoParen(lines, ns, al) ==
    IF lines = <<>> THEN [nodes |-> ns, all |-> al, err |-> NoErr]
    ELSE LET m == lines[1]
             nb == SplitFirstWord(m)
             na == SplitChar1(nb[1], "(")
         IN  IF Len(nb) # 2 \/ Len(na) # 2
             THEN [nodes |-> ns, all |-> al,
                   err |-> Raised("ValueError", StrKey(m), "get_macros")]
             ELSE MacroLoop_NoParen(Tail(lines),
                                    Append(ns, Macro(na[1], na[2], nb[2])),
                                    Put(al, StrKey(na[1]), Len(ns) + 1))

RECURSIVE MacroLoop(_, _, _)
MacroLoop(lines, ns, al) ==
    IF lines = <<>> THEN [nodes |-> ns, all |-> al, err |-> NoErr]
    ELSE LET m == lines[1]
             nb == SplitFirstWord(m)
             na == SplitChar1(nb[1], "(")
         IN  IF Len(nb) # 2 \/ Len(na) # 2
             THEN [nodes |-> ns, all |-> al,
                   err |-> Raised("ValueError", StrKey(m), "get_macros")]
             ELSE MacroLoop(Tail(lines),
                            Append(ns, Macro(na[1], <<"(">> \o na[2], nb[2])),
                            Put(al, StrKey(na[1]), Len(ns) + 1))

\* get_macros(self.cpp_data.get('functions'))
get_macros(ns, al) ==
    IF FUNCTIONS \notin DOMAIN cpp_data THEN [nodes |-> ns, all |-> al, err |-> NoErr]
    ELSE MacroLoop(SplitLines(Concat(cpp_data[FUNCTIONS])), ns, al)

\* The first loop of get_aliases: name, value = a.split(None, 1);
\* aliases[name] = self.all[name] = Alias(name, value).
RECURSIVE AliasLoop(_, _, _, _)
AliasLoop(lines, ns, al, als) ==
    IF lines = <<>> THEN [nodes |-> ns, all |-> al, aliases |-> als, err |-> NoErr]
    ELSE LET a == lines[1]
             nv == SplitFirstWord(a)
         IN  IF Len(nv) # 2
             THEN [nodes |-> ns, all |-> al, aliases |-> als,
                   err |-> Raised("ValueError", StrKey(a), "get_aliases")]
             ELSE AliasLoop(Tail(lines), Append(ns, Alias(nv[1], nv[2])),
                            Put(al, StrKey(nv[1]), Len(ns) + 1),
                            Put(als, nv[1], Len(ns) + 1))

\* The aliases searched before the namespace.
AliasTarget_AliasesFirst(a, nsp, als) ==
    IF a.value \in DOMAIN als THEN [a EXCEPT !.typ = Obj(als[a.value])]
    ELSE IF a.value \in DOMAIN nsp THEN [a EXCEPT !.typ = Obj(nsp[a.value])]
    ELSE a

\* The value text kept as the target of an alias that is not found.
AliasTarget_KeepsValue(a, nsp, als) ==
    IF a.value \in DOMAIN nsp THEN [a EXCEPT !.typ = Obj(nsp[a.value])]
    ELSE IF a.value \in DOMAIN als THEN [a EXCEPT !.typ = Obj(als[a.value])]
    ELSE [a EXCEPT !.typ = Raw(a.value)]

\* The second loop: the alias value is located in the namespace, or in the
\* aliases; otherwise it stays as the constructor left it.
AliasTarget(a, nsp, als) ==
    IF a.value \in DOMAIN nsp THEN [a EXCEPT !.typ = Obj(nsp[a.value])]
    ELSE IF a.value \in DOMAIN als THEN [a EXCEPT !.typ = Obj(als[a.value])]
    ELSE a

RECURSIVE ResolveAliases(_, _, _, _)
ResolveAliases(ns, i, nsp, als) ==
    IF i > Len(ns) THEN <<>>
    ELSE <<IF \E n \in DOMAIN als : als[n] = i
           THEN AliasTarget(ns[i], nsp, als) ELSE ns[i]>>
         \o ResolveAliases(ns, i + 1, nsp, als)

\* get_aliases(self.cpp_data.get('aliases'), namespace)
get_aliases(ns, al, nsp) ==
    IF ALIASES \notin DOMAIN cpp_data
    THEN [nodes |-> ns, all |-> al, aliases |-> EmptyDict, err |-> NoErr]
    ELSE LET r == AliasLoop(SplitLines(Concat(cpp_data[ALIASES])), ns, al, EmptyDict)
         IN  IF r.err # NoErr THEN r
             ELSE [r EXCEPT !.nodes = ResolveAliases(r.nodes, 1, nsp, r.aliases)]

\* The loop of get_result over self.all.items(), in the order the dictionary
\* gives them: the location, then the fixup method; a node without one goes
\* to `remove`.
RECURSIVE FixupLoop(_, _, _, _)
FixupLoop(keys, ns, al, rem) ==
    IF keys = <<>> THEN [nodes |-> ns, remove |-> rem, err |-> NoErr]
    ELSE LET h == al[keys[1]]
             loc == FixLocation(ns[h], ns, al)
             fix == fixup_method(loc.node, al)
         IN  IF loc.err # NoErr THEN [nodes |-> ns, remove |-> rem, err |-> loc.err]
             ELSE IF ns[h].kind \notin HasFixup
             THEN FixupLoop(Tail(keys), [ns EXCEPT ![h] = loc.node], al,
                            Append(rem, h))
             ELSE IF fix.err # NoErr
             THEN [nodes |-> [ns EXCEPT ![h] = fix.node], remove |-> rem,
                   err |-> fix.err]
             ELSE FixupLoop(Tail(keys), [ns EXCEPT ![h] = fix.node], al, rem)

\* The files left out.
interesting_NoFile ==
    {"Typedef", "Struct", "Enumeration", "Union", "Function", "Variable",
     "Namespace"}

\* isinstance(node, interesting)
interesting ==
    {"Typedef", "Struct", "Enumeration", "Union", "Function", "Variable",
     "Namespace", "File"}

\* The loop over self.all.values(): result and namespace.
RECURSIVE Collect(_, _, _, _, _)
Collect(keys, ns, al, res, nsp) ==
    IF keys = <<>> THEN [result |-> res, namespace |-> nsp]
    ELSE LET h == al[keys[1]]
         IN  IF ns[h].kind \notin interesting
             THEN Collect(Tail(keys), ns, al, res, nsp)
             ELSE Collect(Tail(keys), ns, al, Append(res, h),
                          IF ns[h].name # None THEN Put(nsp, ns[h].name, h) ELSE nsp)

\* The orders in which a dictionary with these keys may hand them out: the
\* order of a hash table is none the program chooses.
RECURSIVE Orders(_)
Orders(S) ==
    IF S = {} THEN {<<>>}
    ELSE UNION {{<<x>> \o q : q \in Orders(S \ {x})} : x \in S}

Raise(e, ns, al) ==
    /\ phase' = "failed"
    /\ err' = e
    /\ nodes' = ns
    /\ all' = al
    /\ UNCHANGED <<namespace, aliases, result>>

\* get_result() after its loop: the removal of the nodes without a fixup
\* method, the result and the namespace, the aliases.
assemble(keys, ns, al, rem) ==
    LET c == Collect(keys, ns, al, <<>>, EmptyDict)
        a == get_aliases(ns, al, c.namespace)
    IN  IF rem # <<>>
        THEN \* del self.all[n]: the node itself is no key
             Raise(Raised("KeyError", ObjKey(rem[1]), "remove"), ns, al)
        ELSE IF a.err # NoErr
        THEN Raise(a.err, a.nodes, a.all)
        ELSE /\ phase' = "done"
             /\ nodes' = a.nodes
             /\ all' = a.all
             /\ namespace' = c.namespace
             /\ aliases' = a.aliases
             /\ result' = c.result
             /\ err' = err

\* get_result(), called once the document has been read to its end.
get_result ==
    LET m == get_macros(nodes, all)
    IN  IF m.err # NoErr THEN Raise(m.err, m.nodes, m.all) /\ order' = order
        ELSE \E keys \in Orders(DOMAIN m.all) :
            LET f == FixupLoop(keys, m.nodes, m.all, <<>>)
            IN  /\ order' = keys
                /\ IF f.err # NoErr THEN Raise(f.err, f.nodes, m.all)
                   ELSE assemble(keys, f.nodes, m.all, f.remove)

(***************************************************************************)
(* The elements of the explored documents.  A run reads a document of one  *)
(* family: records and the types between them; elements with subelements;  *)
(* or declarations with the dump sections of the preprocessor.             *)
(***************************************************************************)
E(tag, attrs) == [tag |-> tag, attrs |-> attrs]

NoAttrs == [x \in {} |-> <<>>]

X == <<"x">>
Y == <<"y">>

Words(ids) == JoinWith(ids, <<" ">>)

\* A location names the file by its id: "_2:7"
LocationOf(f) == f \o <<":", "7">>

\* Elements without subelements: their references are ids in attributes.
RecordElems ==
    {E("File", [name |-> X])}
    \cup {E("PointerType", [type |-> t]) : t \in {IdOf(1), IdOf(3)}}
    \cup {E("Field", [name |-> X, type |-> t, context |-> IdOf(1)]) :
            t \in {IdOf(1), IdOf(3)}}
    \cup {E("Variable", [name |-> X, type |-> IdOf(1), context |-> IdOf(3)]),
          E("Variable", [name |-> X, type |-> IdOf(1), context |-> IdOf(1),
                         location |-> LocationOf(IdOf(2))])}
    \cup {E("Namespace", [name |-> X, members |-> Words(<<IdOf(2), IdOf(1)>>)])}
    \cup {E("Struct", [name |-> X, members |-> Words(m), bases |-> <<>>,
                       context |-> IdOf(1)]) :
            m \in {<<IdOf(2), IdOf(3)>>, <<IdOf(3), IdOf(2)>>}}
    \cup {E("Struct", [name |-> X, members |-> <<>>, bases |-> IdOf(3),
                       context |-> IdOf(1)]),
          E("Union", [name |-> X, members |-> Words(<<IdOf(1), IdOf(2)>>),
                      context |-> IdOf(1)])}

\* Elements with subelements, their children, and an element the parser has
\* no handler for.
NestedElems ==
    {E("Function", [name |-> X, returns |-> IdOf(1), context |-> IdOf(1)]),
     E("OperatorFunction", [name |-> X, returns |-> IdOf(1), context |-> IdOf(1)]),
     E("FunctionType", [returns |-> IdOf(1)]),
     E("Method", [name |-> X]),
     E("Enumeration", [name |-> X]),
     E("File", [name |-> X]),
     E("Ellipsis", NoAttrs),
     E("Foo", NoAttrs)}
    \cup {E("Argument", [type |-> t]) : t \in RefIds}
    \cup {E("EnumValue", [name |-> n, init |-> <<"0">>]) : n \in {X, Y}}

\* Declarations and one dump section: the aliases, or the macros.
C == <<"C">>

B == <<"B">>

AliasElems ==
    {E("File", [name |-> B]), E("File", [name |-> C]),
     E("CPP_DUMP", [name |-> ALIASES])}

MacroElems == {E("File", [name |-> C]), E("CPP_DUMP", [name |-> FUNCTIONS])}

\* Records whose bases carry an access qualifier before the id.
PRIVATE == <<"p", "r", "i", "v", "a", "t", "e", ":">>

Record3(tag, bases) ==
    E(tag, [name |-> X, members |-> <<>>, bases |-> bases, context |-> IdOf(1)])

ClassElems ==
    {E("File", [name |-> X]),
     Record3("Struct", PROTECTED \o IdOf(1)),
     Record3("Union", PROTECTED \o IdOf(1)),
     Record3("Class", PROTECTED \o IdOf(1)),
     Record3("Class", PRIVATE \o IdOf(1)),
     Record3("Class", IdOf(2))}

\* Arrays: the bounds as gccxml writes them, and one that is no number.
Array(min, max) == E("ArrayType", [type |-> IdOf(1), min |-> min, max |-> max])

ArrayElems ==
    {E("File", [name |-> X]),
     Array(<<"0">>, SENTINEL),
     Array(<<"0">>, <<>>),
     Array(<<"0">>, <<"7">>),
     Array(<<"0", "u">>, <<"7", "u">>),
     Array(<<"1", "l">>, <<"1", "2", "u", "l">>),
     Array(<<"0">>, <<"f", "f">>)}

\* References that close on themselves: a pointer to itself, two pointers to
\* each other, a record whose field points back to it.
CycleElems ==
    {E("File", [name |-> X])}
    \cup {E("PointerType", [type |-> t]) : t \in {IdOf(1), IdOf(2), IdOf(3)}}
    \cup {E("Struct", [name |-> X, members |-> IdOf(2), bases |-> <<>>,
                       context |-> IdOf(1)]),
          E("Field", [name |-> X, type |-> IdOf(3), context |-> IdOf(1)])}

\* A dump section, and elements with text of their own: beside the section
\* or in it.
CaptureElems ==
    {E("CPP_DUMP", [name |-> FUNCTIONS]), E("File", [name |-> C]),
     E("Ellipsis", NoAttrs)}

\* Declarations that refer to the first element, and a dump section whose
\* macros or aliases may bear the name "_1", an identifier of C as well.
ShadowElems ==
    {E("File", [name |-> X]), E("PointerType", [type |-> IdOf(1)]),
     E("CPP_DUMP", [name |-> FUNCTIONS]), E("CPP_DUMP", [name |-> ALIASES])}

ShadowLines ==
    {<<>>, IdOf(1) \o <<"(", "a", ")", " ", "1">>, <<"F", "(", "a", ")", " ", "1">>,
     IdOf(1) \o <<" ", "x">>}

Vocabulary ==
    [records |-> RecordElems, nested |-> NestedElems, aliases |-> AliasElems,
     macros |-> MacroElems, classes |-> ClassElems, arrays |-> ArrayElems,
     cycles |-> CycleElems, capture |-> CaptureElems, shadow |-> ShadowElems]

\* The lines of an aliases section: an alias of an alias, of a declaration,
\* of nothing known; a line with one word; an empty line.
AliasLines ==
    {<<"A", " ", "B">>, <<"B", " ", "C">>, <<"A", " ", "C">>, <<"C", " ", "5">>,
     <<"A">>, <<>>}

\* The lines of a functions section: a macro with parameters, a header
\* without parenthesis, a line with one word, an empty line.
MacroLines ==
    {<<"F", "(", "a", ")", " ", "(", "a", ")", "+", "1">>, <<"G", " ", "1">>,
     <<"F", "(", "a", ")">>, <<>>, <<"F", "(", ")", " ", " ", "2", " ", "3">>}

RECURSIVE LineLists(_, _)
LineLists(lines, n) ==
    IF n = 0 THEN {<<>>}
    ELSE LineLists(lines, n - 1) \cup
         {Append(q, l) : q \in {p \in LineLists(lines, n - 1) : Len(p) = n - 1},
                         l \in lines}

\* The texts of at most MaxLines lines.
TextsOf(lines) == {JoinWith(q, <<"\n">>) : q \in LineLists(lines, MaxLines)}

\* The text an element may hold.
Texts(e) ==
    IF family = "capture"
    THEN {<<>>, IF e.tag = "CPP_DUMP" THEN <<"G", "(", "a", ")", " ", "1">>
                ELSE <<"H", "(", "b", ")", " ", "2">>}
    ELSE IF e.tag # "CPP_DUMP" THEN {<<>>}
    ELSE IF family = "shadow" THEN ShadowLines
    ELSE IF e.attrs.name = ALIASES THEN TextsOf(AliasLines)
    ELSE TextsOf(MacroLines)

\* gccxml nests only arguments, enumeration values and the ellipsis; the
\* documents explored also nest them in an element without handler, and
\* nest a function type and an enumeration in an element with subelements.
Nests(e) ==
    IF open = <<>> THEN TRUE
    ELSE IF family = "capture"
    THEN stream[Last(open)].tag = "CPP_DUMP" /\ e.tag = "Ellipsis"
    ELSE /\ stream[Last(open)].tag \in has_subelements \cup {"Foo"}
         /\ e.tag \in {"Argument", "EnumValue", "Ellipsis", "Foo", "FunctionType",
                       "Enumeration"}

\* gccxml writes each named dump section once.
Once(e) ==
    e.tag = "CPP_DUMP" =>
        \A i \in 1..Len(stream) : stream[i].tag # "CPP_DUMP"

(***************************************************************************)
(* The specification.                                                      *)
(***************************************************************************)
InitOf(families) ==
    /\ family \in families
    /\ phase = "streaming"
    /\ stream = <<>>
    /\ open = <<>>
    /\ nodes = <<>>
    /\ all = EmptyDict
    /\ context = <<>>
    /\ cpp_data = EmptyDict
    /\ cdata = None
    /\ diag = <<>>
    /\ err = NoErr
    /\ order = <<>>
    /\ todo = <<>>
    /\ remove = <<>>
    /\ namespace = EmptyDict
    /\ aliases = EmptyDict
    /\ result = <<>>

Init == InitOf({"records", "nested", "macros"})

\* A start event of the document.
StartElement ==
    /\ phase = "streaming"
    /\ Len(stream) < MaxElems
    /\ \E e \in Vocabulary[family] :
        /\ Nests(e)
        /\ Once(e)
        /\ start_element(e.tag, WithId(e))
    /\ UNCHANGED <<family, order, todo, remove, namespace, aliases, result>>

\* An end event of the document, with the text of the element.
EndElement ==
    /\ phase = "streaming"
    /\ open # <<>>
    /\ \E text \in Texts(stream[Last(open)]) :
        end_element(stream[Last(open)].tag, text)
    /\ UNCHANGED <<family, order, todo, remove, namespace, aliases, result>>

\* parse() has returned and the caller asks for the result.
GetResult ==
    /\ phase = "streaming"
    /\ open = <<>>
    /\ get_result
    /\ UNCHANGED <<family, stream, open, context, cpp_data, cdata, diag, todo, remove>>

Next == StartElement \/ EndElement \/ GetResult

Spec == Init /\ [][Next]_vars

\* The documents with a dump section.
InitDump == InitOf({"aliases", "macros", "capture"})

SpecDump == InitDump /\ [][Next]_vars

\* The documents of classes with qualified bases, and of arrays.
InitTypes == InitOf({"classes", "arrays"})

SpecTypes == InitTypes /\ [][Next]_vars

\* The documents of elements with subelements.
InitNested == InitOf({"nested"})

SpecNested == InitNested /\ [][Next]_vars

\* The documents whose dump sections bear names that are ids.
InitShadow == InitOf({"shadow"})

SpecShadow == InitShadow /\ [][Next]_vars

\* get_result() step by step.  It gathers the macros and takes the items of
\* self.all,
BeginResult ==
    /\ phase = "streaming"
    /\ open = <<>>
    /\ LET m == get_macros(nodes, all)
       IN  IF m.err # NoErr
           THEN Raise(m.err, m.nodes, m.all) /\ UNCHANGED <<order, todo, remove>>
           ELSE \E keys \in Orders(DOMAIN m.all) :
                /\ phase' = "resolving"
                /\ order' = keys
                /\ todo' = keys
                /\ remove' = <<>>
                /\ nodes' = m.nodes
                /\ all' = m.all
                /\ UNCHANGED <<err, namespace, aliases, result>>
    /\ UNCHANGED <<family, stream, open, context, cpp_data, cdata, diag>>

\* The loop going on into the node a resolved type refers to.
FixupStep_Follows ==
    /\ phase = "resolving"
    /\ todo # <<>>
    /\ LET f == FixupLoop(<<Head(todo)>>, nodes, all, remove)
           t == f.nodes[all[Head(todo)]].typ
       IN  IF f.err # NoErr
           THEN Raise(f.err, f.nodes, all) /\ UNCHANGED <<todo, remove>>
           ELSE /\ nodes' = f.nodes
                /\ todo' = IF t.tag = "node"
                           THEN <<CHOOSE k \in DOMAIN all : all[k] = t.h>> \o Tail(todo)
                           ELSE Tail(todo)
                /\ remove' = f.remove
                /\ UNCHANGED <<phase, all, err, namespace, aliases, result>>
    /\ UNCHANGED <<family, stream, open, context, cpp_data, cdata, diag, order>>

\* visits one item in each iteration of its loop,
FixupStep ==
    /\ phase = "resolving"
    /\ todo # <<>>
    /\ LET f == FixupLoop(<<Head(todo)>>, nodes, all, remove)
       IN  IF f.err # NoErr
           THEN Raise(f.err, f.nodes, all) /\ UNCHANGED <<todo, remove>>
           ELSE /\ nodes' = f.nodes
                /\ todo' = Tail(todo)
                /\ remove' = f.remove
                /\ UNCHANGED <<phase, all, err, namespace, aliases, result>>
    /\ UNCHANGED <<family, stream, open, context, cpp_data, cdata, diag, order>>

\* and assembles the result when the loop has ended.
Assemble ==
    /\ phase = "resolving"
    /\ todo = <<>>
    /\ assemble(order, nodes, all, remove)
    /\ UNCHANGED <<family, stream, open, context, cpp_data, cdata, diag, order,
                   todo, remove>>

NextSteps == StartElement \/ EndElement \/ BeginResult \/ FixupStep \/ Assemble

\* The documents whose references close cycles.
InitSteps == InitOf({"cycles"})

\* A sequential program takes its next step: the loop and the statements
\* after it do not wait.
SpecSteps ==
    InitSteps /\ [][NextSteps]_vars /\ WF_vars(FixupStep) /\ WF_vars(Assemble)

(***************************************************************************)
(* What the document said, read off the stream.                            *)
(***************************************************************************)
Range(q) == {q[i] : i \in 1..Len(q)}

\* The nodes in the registry.
Registered == {all[k] : k \in DOMAIN all}

\* The attributes of the element a node was built from.
AttrsOf(n) == stream[n.ev].attrs

\* The ids the elements of the document carry.
DefinedIds ==
    {stream[i].attrs.id : i \in {j \in 1..Len(stream) : "id" \in DOMAIN stream[j].attrs}}

\* The element a start event hands to a node handler that keeps its references.
Keeps(i, a) ==
    /\ a \in DOMAIN stream[i].attrs
    /\ stream[i].tag \in Builders \ IgnoredElements

\* The ids an element names: in a reference attribute, in a list attribute,
\* as the file of its location, or as the type of an argument.
NamedBy(i) ==
    {stream[i].attrs[a] : a \in {b \in {"type", "context", "returns"} : Keeps(i, b)}}
    \cup UNION {Range(SplitWords(stream[i].attrs[a])) :
                    a \in {b \in {"members", "bases"} : Keeps(i, b)}}
    \cup {SplitChar(stream[i].attrs[a], ":")[1] :
                    a \in {b \in {"location"} : b \in DOMAIN stream[i].attrs
                                               /\ stream[i].tag \in Builders}}
    \cup {stream[i].attrs[a] : a \in {b \in {"type"} : stream[i].tag = "Argument"}}

\* The ids named by the document that no element carries.
Dangling == UNION {NamedBy(i) : i \in 1..Len(stream)} \ DefinedIds

\* get_result was called: it returned, or it raised.
InParse == err.at \in {"visit_Argument", "visit_EnumValue"}
Called == phase = "done" \/ (phase = "failed" /\ ~InParse)

(***************************************************************************)
(* C1.  As claimed: after parse() and a get_result() that returns, every   *)
(* reference field of every node holds a node object, the type of every    *)
(* Argument included, also under a method-like parent built as Ignored.    *)
(***************************************************************************)
ScalarsResolved(n) ==
    /\ Keeps(n.ev, "type") => n.typ.tag = "node"
    /\ Keeps(n.ev, "context") => n.context.tag = "node"
    /\ Keeps(n.ev, "returns") => n.returns.tag = "node"

ListsResolved(n) ==
    /\ Keeps(n.ev, "members") =>
        /\ Len(n.members) = Len(SplitWords(AttrsOf(n).members))
        /\ \A i \in 1..Len(n.members) : n.members[i].tag = "node"
    /\ Keeps(n.ev, "bases") =>
        /\ Len(n.bases) = Len(SplitWords(AttrsOf(n).bases))
        /\ \A i \in 1..Len(n.bases) : n.bases[i].tag = "node"

ArgumentsResolved(n) ==
    \A i \in 1..Len(n.arguments) : n.arguments[i].typ.tag = "node"

ArgumentsRaw(n) ==
    \A i \in 1..Len(n.arguments) :
        n.arguments[i].typ = Raw(stream[n.arguments[i].ev].attrs.type)

LocationsNameFiles ==
    \A i \in 1..Len(stream) :
        "location" \in DOMAIN stream[i].attrs =>
            \A j \in 1..Len(stream) :
                ("id" \in DOMAIN stream[j].attrs
                    /\ stream[j].attrs.id = SplitChar(stream[i].attrs.location, ":")[1])
                => stream[j].tag = "File"

C2_Original ==
    (Called /\ Dangling # {} /\ LocationsNameFiles) =>
        /\ phase = "failed"
        /\ err.type = "KeyError"
        /\ err.key.s \in Dangling

(***************************************************************************)
(* C3.  As claimed: an element without visit_ handler never aborts the     *)
(* parse, wherever it occurs, also with Argument or EnumValue children     *)
(* while the context stack is empty; it gives one diagnostic and no node.  *)
(***************************************************************************)
Unhandled == {i \in 1..Len(stream) : stream[i].tag \notin Visitors}

C3_Original ==
    /\ (phase = "failed" /\ InParse) => \A i \in Range(open) : i \notin Unhandled
    /\ Len(diag) = Cardinality(Unhandled)
    /\ \A h \in 1..Len(nodes) : nodes[h].ev \notin Unhandled

(***************************************************************************)
(* C4.  The resolved members and bases lists of a Namespace, Struct or     *)
(* Union have the length and order of the ids in the attribute, and the    *)
(* arguments of a Function, OperatorFunction or FunctionType and the       *)
(* values of an Enumeration those of the nested child elements: position i *)
(* holds the node for the i-th id, the i-th child.                         *)
(***************************************************************************)
\* The node built from the element that carries this id.
NodeOfId(id) ==
    CHOOSE h \in 1..Len(nodes) :
        /\ nodes[h].ev > 0
        /\ "id" \in DOMAIN AttrsOf(nodes[h])
        /\ AttrsOf(nodes[h]).id = id

RECURSIVE Ascending(_)
Ascending(S) ==
    IF S = {} THEN <<>>
    ELSE LET m == CHOOSE x \in S : \A y \in S : x <= y
         IN  <<m>> \o Ascending(S \ {m})

\* The start events of the children of one kind nested in an element.
ChildEvents(ev, tag) ==
    Ascending({i \in 1..Len(stream) : stream[i].encl = ev /\ stream[i].tag = tag})

\* The id in an entry of a list attribute: what follows an access qualifier.
BareId(b) == SplitChar(b, ":")[Len(SplitChar(b, ":"))]

InOrderOfIds(list, ids) ==
    /\ Len(list) = Len(ids)
    /\ \A i \in 1..Len(ids) : list[i] = Obj(NodeOfId(BareId(ids[i])))

C4_Order ==
    phase = "done" =>
        \A h \in Registered :
            LET n == nodes[h] IN
            /\ n.kind \in {"Namespace", "Struct", "Union"} =>
                /\ InOrderOfIds(n.members, SplitWords(AttrsOf(n).members))
                /\ "bases" \in DOMAIN AttrsOf(n) =>
                    InOrderOfIds(n.bases, SplitWords(AttrsOf(n).bases))
            /\ n.kind \in {"Function", "OperatorFunction", "FunctionType"} =>
                LET kids == ChildEvents(n.ev, "Argument") IN
                /\ Len(n.arguments) = Len(kids)
                /\ \A i \in 1..Len(kids) :
                    /\ n.arguments[i].ev = kids[i]
                    /\ n.arguments[i].typ = Obj(NodeOfId(stream[kids[i]].attrs.type))
            /\ n.kind = "Enumeration" =>
                LET kids == ChildEvents(n.ev, "EnumValue") IN
                /\ Len(n.values) = Len(kids)
                /\ \A i \in 1..Len(kids) :
                    /\ n.values[i].ev = kids[i]
                    /\ n.values[i].name = stream[kids[i]].attrs.name

C4_Witness ==
    /\ phase = "done"
    /\ \E h \in Registered :
        /\ nodes[h].kind = "Struct"
        /\ Len(nodes[h].members) = 2
        /\ nodes[h].members[1] # nodes[h].members[2]
        /\ AttrsOf(nodes[h]).members = Words(<<IdOf(3), IdOf(2)>>)

(***************************************************************************)
(* C5.  The list get_result() returns holds exactly the registry nodes of  *)
(* kind File, Namespace, Variable, Typedef, Struct, Union, Enumeration or  *)
(* Function, each once, and no node of another kind.                       *)
(***************************************************************************)
Declarations ==
    {"File", "Namespace", "Variable", "Typedef", "Struct", "Union",
     "Enumeration", "Function"}

C6_Original ==
    phase = "done" =>
        \A i, j \in 1..Len(result) :
            i < j => nodes[result[i]].ev < nodes[result[j]].ev

(***************************************************************************)
(* C7.  In a document where a Struct lists a Field as member, the type of  *)
(* the Field is a PointerType and the type of the PointerType is the       *)
(* Struct's id, and that names no id it does not define, get_result()      *)
(* returns, and struct.members[i].typ.typ is the node stored in the        *)
(* registry under the Struct's id.                                         *)
(***************************************************************************)
Cycle(s, f, p) ==
    /\ stream[s].tag = "Struct"
    /\ stream[f].tag = "Field"
    /\ stream[p].tag = "PointerType"
    /\ stream[f].attrs.id \in Range(SplitWords(stream[s].attrs.members))
    /\ stream[f].attrs.type = stream[p].attrs.id
    /\ stream[p].attrs.type = stream[s].attrs.id

Cycles ==
    {c \in (1..Len(stream)) \X (1..Len(stream)) \X (1..Len(stream)) :
        Cycle(c[1], c[2], c[3])}

C7_Cycle ==
    (Called /\ Dangling = {} /\ LocationsNameFiles) =>
        \A c \in Cycles :
            /\ phase = "done"
            /\ LET hs == all[StrKey(stream[c[1]].attrs.id)]
                   i == CHOOSE k \in 1..Len(nodes[hs].members) :
                            nodes[hs].members[k] = Obj(NodeOfId(stream[c[2]].attrs.id))
               IN  /\ nodes[hs].ev = c[1]
                   /\ \E k \in 1..Len(nodes[hs].members) :
                        nodes[hs].members[k] = Obj(NodeOfId(stream[c[2]].attrs.id))
                   /\ nodes[nodes[hs].members[i].h].typ.tag = "node"
                   /\ nodes[nodes[nodes[hs].members[i].h].typ.h].typ = Obj(hs)

C7_Witness == phase = "done" /\ Cycles # {}

(***************************************************************************)
(* The lines of the dump sections, read off the text the parser kept.      *)
(***************************************************************************)
SectionLines(name) ==
    IF name \in DOMAIN cpp_data THEN SplitLines(Concat(cpp_data[name])) ELSE <<>>

AliasSection == SectionLines(ALIASES)
MacroSection == SectionLines(FUNCTIONS)

\* A line that splits into a name and a value.
IsAliasLine(l) == Len(SplitFirstWord(l)) = 2
AliasName(l) == SplitFirstWord(l)[1]
AliasValue(l) == SplitFirstWord(l)[2]

\* A line that splits into a header with a parenthesis and a body.
IsMacroLine(l) ==
    /\ Len(SplitFirstWord(l)) = 2
    /\ Len(SplitChar1(SplitFirstWord(l)[1], "(")) = 2
MacroName(l) == SplitChar1(SplitFirstWord(l)[1], "(")[1]

\* The line that defines its name last.
LastOfName(i) ==
    \A j \in 1..Len(AliasSection) :
        (j > i /\ IsAliasLine(AliasSection[j])) =>
            AliasName(AliasSection[j]) # AliasName(AliasSection[i])

\* The places of the result that hold a declaration of this name.
Declared(v) == {i \in 1..Len(result) : nodes[result[i]].name = v}

\* The value is the name of an alias of the section.
IsAliased(v) ==
    \E j \in 1..Len(AliasSection) :
        IsAliasLine(AliasSection[j]) /\ AliasName(AliasSection[j]) = v

\* The node registered under the name of a line.
AliasOf(l) == nodes[all[StrKey(AliasName(l))]]

(***************************************************************************)
(* C8.  Alias resolution is one hop: the value of an alias is looked up    *)
(* among the named declarations of the result first and among the aliases  *)
(* of the section second; the node found is the target, and nothing is     *)
(* looked up through it: an alias of an alias has that alias as target,    *)
(* whatever that alias stands for.                                         *)
(***************************************************************************)
C8_OneHop ==
    phase = "done" =>
        \A i \in 1..Len(AliasSection) :
            LastOfName(i) =>
                LET a == AliasOf(AliasSection[i])
                    v == AliasValue(AliasSection[i])
                IN  IF Declared(v) # {}
                    THEN /\ a.typ.tag = "node"
                         /\ \E k \in Declared(v) :
                                /\ a.typ.h = result[k]
                                /\ \A m \in Declared(v) : m <= k
                    ELSE IF IsAliased(v)
                    THEN /\ a.typ = Obj(all[StrKey(v)])
                         /\ nodes[a.typ.h].kind = "Alias"
                         /\ nodes[a.typ.h].name = v
                    ELSE a.typ = NoRef

C8_Witness ==
    /\ phase = "done"
    /\ \E i \in 1..Len(AliasSection) :
        LET a == AliasOf(AliasSection[i])
        IN  /\ a.typ.tag = "node"
            /\ nodes[a.typ.h].kind = "Alias"
            /\ nodes[a.typ.h].typ.tag = "node"
            /\ nodes[nodes[a.typ.h].typ.h].kind = "File"

(***************************************************************************)
(* C9.  An alias line whose value is neither the name of a declaration of  *)
(* the result nor the name of an alias of the section raises nothing: if   *)
(* get_result() raises in a document with an aliases section, it is on a   *)
(* line that does not split in two; when it returns, every line has its    *)
(* Alias node, and that of such a line has the name and value text of the  *)
(* line and a null target.                                                 *)
(***************************************************************************)
Unfound(i) ==
    /\ IsAliasLine(AliasSection[i])
    /\ LastOfName(i)
    /\ Declared(AliasValue(AliasSection[i])) = {}
    /\ ~IsAliased(AliasValue(AliasSection[i]))

C9_Unfound ==
    (Called /\ ALIASES \in DOMAIN cpp_data) =>
        /\ phase = "failed" =>
            /\ err.type = "ValueError"
            /\ err.at = "get_aliases"
            /\ ~IsAliasLine(err.key.s)
        /\ phase = "done" =>
            \A i \in 1..Len(AliasSection) :
                /\ IsAliasLine(AliasSection[i])
                /\ StrKey(AliasName(AliasSection[i])) \in DOMAIN all
                /\ AliasOf(AliasSection[i]).kind = "Alias"
                /\ AliasOf(AliasSection[i]).name = AliasName(AliasSection[i])
                /\ Unfound(i) =>
                    /\ AliasOf(AliasSection[i]).value = AliasValue(AliasSection[i])
                    /\ AliasOf(AliasSection[i]).typ = NoRef

C9_Witness ==
    /\ phase = "done"
    /\ \E i, j \in 1..Len(AliasSection) :
        /\ i < j
        /\ Unfound(i)
        /\ AliasOf(AliasSection[j]).typ.tag = "node"

(***************************************************************************)
(* C10.  As claimed: a line of a dump section that does not split into     *)
(* name and body or value (an empty line, a line of one word, a macro      *)
(* header without parenthesis) is skipped: get_result() returns, and every *)
(* line of the section that does split has its Macro or Alias node.        *)
(***************************************************************************)
C10_Original ==
    Called =>
        /\ phase = "done"
        /\ \A i \in 1..Len(AliasSection) :
            IsAliasLine(AliasSection[i]) =>
                /\ StrKey(AliasName(AliasSection[i])) \in DOMAIN all
                /\ AliasOf(AliasSection[i]).kind = "Alias"
        /\ \A i \in 1..Len(MacroSection) :
            IsMacroLine(MacroSection[i]) =>
                /\ StrKey(MacroName(MacroSection[i])) \in DOMAIN all
                /\ nodes[all[StrKey(MacroName(MacroSection[i]))]].kind = "Macro"

(***************************************************************************)
(* C11.  As claimed: a bases entry of a Struct, Class or Union written as  *)
(* an access qualifier followed by an id ('protected:_1', 'private:_1')    *)
(* resolves to the node the bare id resolves to.                           *)
(***************************************************************************)
Qualified(i) ==
    /\ stream[i].tag \in {"Struct", "Class", "Union"}
    /\ "bases" \in DOMAIN stream[i].attrs
    /\ \E b \in Range(SplitWords(stream[i].attrs.bases)) : BareId(b) # b

\* Every id the document names, bare, is the id of an element.
BareNamed(i) ==
    {stream[i].attrs[a] : a \in {b \in {"type", "context", "returns"} : Keeps(i, b)}}
    \cup UNION {{BareId(w) : w \in Range(SplitWords(stream[i].attrs[a]))} :
                    a \in {b \in {"members", "bases"} : Keeps(i, b)}}

AllDefined == UNION {BareNamed(i) : i \in 1..Len(stream)} \subseteq DefinedIds

C11_Original ==
    (Called /\ AllDefined /\ family = "classes") =>
        /\ phase = "done"
        /\ \A h \in Registered :
            (nodes[h].ev > 0 /\ Qualified(nodes[h].ev)) =>
                InOrderOfIds(nodes[h].bases, SplitWords(AttrsOf(nodes[h]).bases))

(***************************************************************************)
(* C12.  visit_ArrayType gives the maximum -1 when max is sixteen 'f' or   *)
(* empty, and otherwise the value of the decimal numeral left when the     *)
(* trailing 'l' and 'u' are removed; the minimum is valued the same way;   *)
(* the element type stays the id that was read until get_result().         *)
(***************************************************************************)
AllOnes ==
    <<"f", "f", "f", "f", "f", "f", "f", "f", "f", "f", "f", "f", "f", "f", "f", "f">>

\* The numeral without its size suffix.
Stem(s) ==
    LET keep == {k \in 1..Len(s) : s[k] \notin {"l", "u"}}
    IN  IF keep = {} THEN <<>>
        ELSE SubSeq(s, 1, CHOOSE k \in keep : \A j \in keep : j <= k)

IsNumeral(s) == Stem(s) # <<>> /\ \A i \in 1..Len(Stem(s)) : Stem(s)[i] \in Range(Digits)

RECURSIVE Pow10(_)
Pow10(n) == IF n = 0 THEN 1 ELSE 10 * Pow10(n - 1)

RECURSIVE SumDigits(_, _)
SumDigits(d, i) ==
    IF i > Len(d) THEN 0
    ELSE ((CHOOSE v \in 0..9 : Digits[v + 1] = d[i]) * Pow10(Len(d) - i))
         + SumDigits(d, i + 1)

ValueOf(s) == SumDigits(Stem(s), 1)

ArrayEvents == {i \in 1..Len(stream) : stream[i].tag = "ArrayType"}

C12_ArrayBounds ==
    /\ \A i \in ArrayEvents :
        (/\ IsNumeral(stream[i].attrs.min)
         /\ stream[i].attrs.max \in {AllOnes, <<>>} \/ IsNumeral(stream[i].attrs.max))
        => \E h \in 1..Len(nodes) : nodes[h].ev = i
    /\ \A h \in 1..Len(nodes) :
        nodes[h].kind = "ArrayType" =>
            LET a == AttrsOf(nodes[h]) IN
            /\ nodes[h].max = IF a.max \in {AllOnes, <<>>} THEN 0 - 1 ELSE ValueOf(a.max)
            /\ nodes[h].min = ValueOf(a.min)
            /\ phase = "streaming" => nodes[h].typ = Raw(a.type)

C12_Witness ==
    /\ \E h \in 1..Len(nodes) :
        /\ nodes[h].kind = "ArrayType"
        /\ AttrsOf(nodes[h]).max = <<"1", "2", "u", "l">>
        /\ nodes[h].max = 12
        /\ nodes[h].min = 1
    /\ \E h \in 1..Len(nodes) :
        nodes[h].kind = "ArrayType" /\ AttrsOf(nodes[h]).max = <<>>

(***************************************************************************)
(* C13.  Every macro line is split at its first whitespace into header and *)
(* body and the header at its first '(' into the name and the parameter    *)
(* text, which keeps the '('; Macro(name, params, body) is registered      *)
(* under the name: 'F(a) (a)+1' gives name 'F', params '(a)', body         *)
(* '(a)+1'.                                                                *)
(***************************************************************************)
\* The first place of a line where the test holds (past the end: none).
FirstAt(l, from, Test(_)) ==
    LET S == {k \in from..Len(l) : Test(l[k])}
    IN  IF S = {} THEN Len(l) + 1 ELSE CHOOSE k \in S : \A j \in S : k <= j

IsBlank(c) == c = " "
IsInk(c) == c # " "
IsParen(c) == c = "("

Header(l) == SubSeq(l, 1, FirstAt(l, 1, IsBlank) - 1)
BodyOf(l) == SubSeq(l, FirstAt(l, FirstAt(l, 1, IsBlank), IsInk), Len(l))
NameOf(l) == SubSeq(Header(l), 1, FirstAt(Header(l), 1, IsParen) - 1)
ParamsOf(l) == SubSeq(Header(l), FirstAt(Header(l), 1, IsParen), Len(Header(l)))

\* The line that defines its macro last.
LastMacro(i) ==
    \A j \in 1..Len(MacroSection) : j > i => NameOf(MacroSection[j]) # NameOf(MacroSection[i])

C13_Macros ==
    phase = "done" =>
        \A i \in 1..Len(MacroSection) :
            /\ StrKey(NameOf(MacroSection[i])) \in DOMAIN all
            /\ LastMacro(i) =>
                LET m == nodes[all[StrKey(NameOf(MacroSection[i]))]]
                IN  /\ m.kind = "Macro"
                    /\ m.name = NameOf(MacroSection[i])
                    /\ m.args = ParamsOf(MacroSection[i])
                    /\ m.args[1] = "("
                    /\ m.body = BodyOf(MacroSection[i])

C13_Witness ==
    /\ phase = "done"
    /\ Len(MacroSection) = 2
    /\ \E h \in Registered :
        /\ nodes[h].kind = "Macro"
        /\ nodes[h].name = <<"F">>
        /\ nodes[h].args = <<"(", "a", ")">>
        /\ nodes[h].body = <<"(", "a", ")", "+", "1">>

(***************************************************************************)
(* C14.  The resolved graph does not depend on whether an element comes    *)
(* before or after the elements that name it: while the document is read   *)
(* no reference field holds a node, only the id that was read; when every  *)
(* id named is the id of some element no lookup misses; and after          *)
(* get_result() each reference holds the node built from the element that  *)
(* carries the id, be it an earlier or a later one.                        *)
(***************************************************************************)
RefsOf(n) ==
    {n.typ, n.context, n.returns} \cup Range(n.members) \cup Range(n.bases)
    \cup {n.arguments[i].typ : i \in 1..Len(n.arguments)}

Unresolved(n) ==
    /\ \A r \in RefsOf(n) : r.tag # "node"
    /\ Keeps(n.ev, "type") => n.typ.id = AttrsOf(n).type
    /\ Keeps(n.ev, "context") => n.context.id = AttrsOf(n).context
    /\ Keeps(n.ev, "returns") => n.returns.id = AttrsOf(n).returns

ResolvedById(n) ==
    /\ Keeps(n.ev, "type") => n.typ = Obj(NodeOfId(AttrsOf(n).type))
    /\ Keeps(n.ev, "context") => n.context = Obj(NodeOfId(AttrsOf(n).context))
    /\ Keeps(n.ev, "returns") => n.returns = Obj(NodeOfId(AttrsOf(n).returns))

C14_AnyOrder ==
    /\ phase = "streaming" => \A h \in 1..Len(nodes) : Unresolved(nodes[h])
    /\ (phase = "failed" /\ Dangling = {}) => err.type # "KeyError"
    /\ phase = "done" =>
        \A h \in Registered : nodes[h].ev > 0 => ResolvedById(nodes[h])

\* One node names a later element and one an earlier element.
C14_Witness ==
    /\ phase = "done"
    /\ \E h \in Registered :
        nodes[h].typ.tag = "node" /\ nodes[nodes[h].typ.h].ev > nodes[h].ev
    /\ \E h \in Registered :
        nodes[h].typ.tag = "node" /\ nodes[nodes[h].typ.h].ev < nodes[h].ev

(***************************************************************************)
(* C15.  The loop of get_result comes to its end on references that close  *)
(* cycles: it visits every entry of the registry exactly once, in each     *)
(* visit it changes the visited node alone, replacing ids of that node by   *)
(* the nodes the registry holds for them without going on into those       *)
(* nodes, and get_result then returns or raises.                           *)
(***************************************************************************)
Injective(q) == \A i, j \in 1..Len(q) : q[i] = q[j] => i = j

\* The entries the loop has visited.
Visited == SubSeq(order, 1, Len(order) - Len(todo))

\* The items are the entries of the registry, each once, and the loop goes
\* through them from the first to the last.
OncePerEntry ==
    /\ Range(order) = DOMAIN all
    /\ Injective(order)
    /\ Len(todo) <= Len(order)
    /\ order = Visited \o todo

\* A reference after the visit: as it was, or the node the registry holds
\* for its id.
OneLookup(r, q) == q = r \/ (r.tag = "id" /\ StrKey(r.id) \in DOMAIN all /\ q = Obj(all[StrKey(r.id)]))

OneLookupEach(rs, qs) ==
    /\ Len(qs) = Len(rs)
    /\ \A i \in 1..Len(rs) : OneLookup(rs[i], qs[i])

\* The node m is the node n after one visit.
VisitOf(n, m) ==
    /\ \A fld \in {"kind", "name", "values", "value", "args", "body", "min", "max", "ev"} :
            m[fld] = n[fld]
    /\ OneLookup(n.typ, m.typ)
    /\ OneLookup(n.context, m.context)
    /\ OneLookup(n.returns, m.returns)
    /\ OneLookupEach(n.members, m.members)
    /\ OneLookupEach(n.bases, m.bases)
    /\ Len(m.arguments) = Len(n.arguments)
    /\ \A i \in 1..Len(n.arguments) :
            /\ OneLookup(n.arguments[i].typ, m.arguments[i].typ)
            /\ m.arguments[i].name = n.arguments[i].name

\* A step of the loop.
OneVisit ==
    (phase = "resolving" /\ todo # <<>>) =>
        /\ Len(nodes') = Len(nodes)
        /\ \A h \in 1..Len(nodes) : h # all[Head(todo)] => nodes'[h] = nodes[h]
        /\ VisitOf(nodes[all[Head(todo)]], nodes'[all[Head(todo)]])
        /\ \/ phase' = "resolving" /\ todo' = Tail(todo)
           \/ phase' = "failed" /\ todo' = todo

C15_Terminates ==
    /\ [](phase = "resolving" => OncePerEntry)
    /\ [](phase = "done" => (todo = <<>> /\ Injective(order)))
    /\ [][OneVisit]_vars
    /\ (phase = "resolving" ~> phase \in {"done", "failed"})

\* get_result has returned on a pointer to itself, on two pointers to each
\* other, or on a record whose field points back to it.
C15_Witness ==
    /\ phase = "done"
    /\ Len(order) > 0
    /\ todo = <<>>
    /\ \/ Cycles # {}
       \/ \E h \in Registered :
            /\ nodes[h].kind = "PointerType"
            /\ nodes[h].typ.tag = "node"
            /\ nodes[nodes[h].typ.h].typ = Obj(h)

(***************************************************************************)
(* C16.  A node without a fixup method would go to `remove` and from there *)
(* to del self.all[n].  Every class the handlers and get_macros build has  *)
(* a fixup method, and the aliases are registered after the loop: no       *)
(* document brings a node to `remove`, and what the statement says about   *)
(* such a node has no case to be observed in.                              *)
(***************************************************************************)
EveryNodeHasFixup ==
    /\ \A h \in Registered : nodes[h].kind \in HasFixup \cup {"Alias"}
    /\ remove = <<>>
    /\ err.at # "remove"

(***************************************************************************)
(* C17.  At every point the context stack holds the nodes of the open      *)
(* elements with subelements (Enumeration, Function, FunctionType,         *)
(* OperatorFunction, Method, Constructor, Destructor, OperatorMethod), the  *)
(* outermost first; the start and the end of any other element leave the   *)
(* stack as it is; when every element has ended the stack is empty; and    *)
(* get_result does not change it.                                          *)
(***************************************************************************)
ChildrenBearing ==
    {"Enumeration", "Function", "FunctionType", "OperatorFunction", "Method",
     "Constructor", "Destructor", "OperatorMethod"}

IsBearing(i) == stream[i].tag \in ChildrenBearing

\* The open elements with subelements, outermost first.
OpenBearing == SelectSeq(open, IsBearing)

ContextIsOpenBearing ==
    /\ Len(context) = Len(OpenBearing)
    /\ \A i \in 1..Len(context) :
        /\ context[i] \in 1..Len(nodes)
        /\ nodes[context[i]].ev = OpenBearing[i]
    /\ open = <<>> => context = <<>>

\* The element a step starts or ends (0: the step is no event).
EventOf ==
    IF Len(stream') > Len(stream) THEN Len(stream')
    ELSE IF Len(open') < Len(open) THEN Last(open)
    ELSE 0

ContextFrame ==
    /\ (EventOf # 0 /\ stream'[EventOf].tag \notin ChildrenBearing) => context' = context
    /\ (Len(stream') > Len(stream) /\ stream'[Len(stream')].tag \in ChildrenBearing) =>
            (Len(context') = Len(context) + 1 /\ Front(context') = context)
    /\ (Len(open') < Len(open) /\ IsBearing(Last(open))) => context' = Front(context)
    /\ EventOf = 0 => context' = context

C17_Context == [](ContextIsOpenBearing) /\ [][ContextFrame]_vars

\* Two elements with subelements are open, one in the other.
C17_Witness ==
    /\ phase = "streaming"
    /\ Len(context) = 2
    /\ nodes[context[1]].ev < nodes[context[2]].ev

(***************************************************************************)
(* C18.  The start of an Argument or EnumValue appends one child, at that  *)
(* step and at the end of the list, to the node on top of the context      *)
(* stack and changes no other node; the child is not registered; and       *)
(* get_result adds no child.                                               *)
(***************************************************************************)
\* The step starts an element with this tag.
Starts(tag) == Len(stream') > Len(stream) /\ stream'[Len(stream')].tag = tag

\* The step appends the child of the started element to the node h, as the
\* last of its arguments or of its values, and changes nothing else of it.
AppendsArgument(h) ==
    /\ Len(nodes'[h].arguments) = Len(nodes[h].arguments) + 1
    /\ nodes'[h] = [nodes[h] EXCEPT !.arguments = Append(@, Last(nodes'[h].arguments))]
    /\ Last(nodes'[h].arguments).ev = Len(stream')
    /\ Last(nodes'[h].arguments).typ = Raw(stream'[Len(stream')].attrs.type)

AppendsValue(h) ==
    /\ Len(nodes'[h].values) = Len(nodes[h].values) + 1
    /\ nodes'[h] = [nodes[h] EXCEPT !.values = Append(@, Last(nodes'[h].values))]
    /\ Last(nodes'[h].values).ev = Len(stream')
    /\ Last(nodes'[h].values).name = stream'[Len(stream')].attrs.name

\* The step changes no node but h, builds none and registers none.
OnlyNode(h) ==
    /\ Len(nodes') = Len(nodes)
    /\ \A g \in 1..Len(nodes) : g # h => nodes'[g] = nodes[g]
    /\ all' = all
    /\ context' = context

\* A child is never a node of its own.
ChildrenUnregistered ==
    \A h \in 1..Len(nodes) :
        nodes[h].ev # 0 => stream[nodes[h].ev].tag \notin {"Argument", "EnumValue"}

\* get_result leaves the lists of children as long as they were.
NoLateChild ==
    (phase = "streaming" /\ phase' # "streaming" /\ stream' = stream) =>
        \A h \in 1..Len(nodes) :
            /\ Len(nodes'[h].arguments) = Len(nodes[h].arguments)
            /\ Len(nodes'[h].values) = Len(nodes[h].values)

\* As claimed: whatever node is on top of the stack.
AppendsToTop ==
    /\ (Starts("Argument") /\ context # <<>>) =>
            (phase' = "streaming" /\ AppendsArgument(Last(context)) /\ OnlyNode(Last(context)))
    /\ (Starts("EnumValue") /\ context # <<>>) =>
            (phase' = "streaming" /\ AppendsValue(Last(context)) /\ OnlyNode(Last(context)))

TakesArgument == {"Function", "FunctionType", "OperatorFunction", "Ignored"}
TakesValue == {"Enumeration"}

\* The start event raised and left every node as it was.
ChildRefused ==
    /\ phase' = "failed"
    /\ err'.type \in {"IndexError", "AttributeError"}
    /\ nodes' = nodes
    /\ all' = all
    /\ context' = context

AppendsToParent ==
    /\ Starts("Argument") =>
            IF context # <<>> /\ nodes[Last(context)].kind \in TakesArgument
            THEN phase' = "streaming" /\ AppendsArgument(Last(context)) /\ OnlyNode(Last(context))
            ELSE ChildRefused
    /\ Starts("EnumValue") =>
            IF context # <<>> /\ nodes[Last(context)].kind \in TakesValue
            THEN phase' = "streaming" /\ AppendsValue(Last(context)) /\ OnlyNode(Last(context))
            ELSE ChildRefused

DumpOf(n) ==
    CHOOSE i \in 1..Len(stream) : stream[i].tag = "CPP_DUMP" /\ stream[i].attrs.name = n

\* No element has ended since this one started.
NoneEndedSince(i) == \A j \in i..Len(stream) : j \in Range(open)

C19_Original ==
    /\ \A n \in DOMAIN cpp_data :
            Concat(cpp_data[n]) =
                IF DumpOf(n) \in Range(open) THEN <<>> ELSE stream[DumpOf(n)].text
    /\ cdata # None =>
            /\ cdata \in DOMAIN cpp_data
            /\ NoneEndedSince(DumpOf(cdata))

(***************************************************************************)
(* C20.  As claimed: get_result fails only in its loop over the registry   *)
(* and only on an id no element defines; once the loop has ended without   *)
(* an exception, the result, the namespace and the aliases are always      *)
(* built and the list is returned, whatever the dump sections hold.  (The  *)
(* macros are gathered before the loop; what get_macros raises is left     *)
(* aside here.)                                                            *)
(***************************************************************************)
C20_Original ==
    (Called /\ phase = "failed" /\ err.at # "get_macros") =>
        /\ err.type = "KeyError"
        /\ Dangling # {}
        /\ err.at \notin {"get_aliases", "remove"}

(***************************************************************************)
(* C21.  As claimed: the Macro and Alias nodes registered under their      *)
(* names never change what an id resolves to: after get_result() every     *)
(* reference of every node built from an element holds the node built from *)
(* the element that carries the id, whatever names the dump sections hold. *)
(***************************************************************************)
C21_Original ==
    phase = "done" =>
        \A h \in 1..Len(nodes) : nodes[h].ev > 0 => ResolvedById(nodes[h])

=============================================================================
